---- MODULE Spec2Model ----
(***************************************************************************)
(* Model of scripts/train_lora.py: the batch pipeline                      *)
(*   import -> validate -> load_training_examples -> zero-records check    *)
(*   -> tokenizer -> base model -> get_peft_model -> WeightedExampleDataset*)
(*   -> train_lora -> export_adapter.                                      *)
(* The queue file is a sequence of lines; each line is represented by what *)
(* json.loads makes of it.  Weights are tagged values so that a missing    *)
(* weight, a number, NaN and a non-numeric value stay distinct.            *)
(***************************************************************************)
EXTENDS Integers, Sequences, FiniteSets, TLC

VARIABLES pc, queueExists, lines, line_num, examples, warnings, summary,
          params, dataset, sampler, trainer, exportInvoked, outputFile,
          exitCode, diag, failedAt

vars == <<pc, queueExists, lines, line_num, examples, warnings, summary,
          params, dataset, sampler, trainer, exportInvoked, outputFile,
          exitCode, diag, failedAt>>

\* Longest queue file explored.
MaxLines == 2

\* ------------------------------------------------------------------------
\* Values
\* ------------------------------------------------------------------------

\* A JSON number n (the model keeps integers).
Num(n) == [t |-> "num", v |-> n]

\* The float NaN, which json.loads accepts as a literal.
NaN == [t |-> "nan", v |-> 0]

\* A JSON value that is not a number (string, null, list, ...).
NonNumeric == [t |-> "str", v |-> 0]

\* No "weight" key in the object.
Absent == [t |-> "absent", v |-> 0]

\* Weight values a queue line may carry.
WeightVals == {Absent, Num(0), Num(2), Num(3), Num(9), Num(10), NaN, NonNumeric}

\* What json.loads returns for a line (or that it raises JSONDecodeError):
\*   kind "invalid": not JSON (also an empty line)
\*   kind "object":  a dict; hasQuery/hasResponse say which keys it has
\*   kind "scalar":  a number, null or boolean
\*   kind "string":  a JSON string (or array); hasQuery/hasResponse say
\*                   which substrings (elements) it contains
Line(kind, hq, hr, q, w) ==
  [kind |-> kind, hasQuery |-> hq, hasResponse |-> hr, query |-> q,
   response |-> IF hr /\ kind = "object" THEN "r" ELSE "", weight |-> w]

LineVals ==
  {Line("invalid", FALSE, FALSE, "", Absent),
   Line("scalar", FALSE, FALSE, "", Absent),
   Line("string", TRUE, TRUE, "", Absent),
   Line("string", FALSE, FALSE, "", Absent),
   Line("object", FALSE, TRUE, "", Absent),
   Line("object", TRUE, FALSE, "q1", Absent)}
  \cup {Line("object", TRUE, TRUE, "q1", w) : w \in WeightVals}
  \cup {Line("object", TRUE, TRUE, "q2", w) : w \in {Absent, Num(10)}}

AllFiles == UNION {[1..n -> LineVals] : n \in 0..MaxLines}

\* ------------------------------------------------------------------------
\* json / dict primitives used by the loader
\* ------------------------------------------------------------------------

\* json.loads(line) raises JSONDecodeError
JsonDecodeError(l) == l.kind = "invalid"

\* `key in example` raises TypeError (example is not iterable)
InRaises(l) == l.kind = "scalar"

\* `"query" in example`, `"response" in example`: key membership for a dict,
\* substring test for a str
InQuery(l) == l.hasQuery

InResponse(l) == l.hasResponse

\* example.get raises AttributeError (example is not a dict)
GetRaises(ex) == ex.kind # "object"

\* ex.get("weight", 1.0)
DictGetWeight_zero(ex) == IF ex.weight.t = "absent" THEN Num(0) ELSE ex.weight

DictGetWeight(ex) == IF ex.weight.t = "absent" THEN Num(1) ELSE ex.weight

\* examples.append(example)
AppendExample_front(exs, ex) == <<ex>> \o exs

AppendExample(exs, ex) == Append(exs, ex)

\* ------------------------------------------------------------------------
\* float arithmetic on tagged weights
\* ------------------------------------------------------------------------

IsNumeric(w) == w.t \in {"num", "nan"}

\* a < b, a >= b, a <= b on floats: every comparison with NaN is False
Lt(a, b) == a.t = "num" /\ b.t = "num" /\ a.v < b.v

Ge(a, b) == a.t = "num" /\ b.t = "num" /\ a.v >= b.v

Le(a, b) == a.t = "num" /\ b.t = "num" /\ a.v <= b.v

Add(a, b) == IF a.t = "num" /\ b.t = "num" THEN Num(a.v + b.v) ELSE NaN

RECURSIVE SumW(_)
\* sum(weights)
SumW(ws) == IF ws = <<>> THEN Num(0)
            ELSE Add(SumW(SubSeq(ws, 1, Len(ws) - 1)), ws[Len(ws)])

RECURSIVE MinW(_)
\* min(weights): keeps the running minimum, replaced only when x < m
MinW(ws) == IF Len(ws) = 1 THEN ws[1]
            ELSE LET m == MinW(SubSeq(ws, 1, Len(ws) - 1))
                     x == ws[Len(ws)]
                 IN IF Lt(x, m) THEN x ELSE m

RECURSIVE MaxW(_)
\* max(weights): keeps the running maximum, replaced only when x > m
MaxW(ws) == IF Len(ws) = 1 THEN ws[1]
            ELSE LET m == MaxW(SubSeq(ws, 1, Len(ws) - 1))
                     x == ws[Len(ws)]
                 IN IF Lt(m, x) THEN x ELSE m

\* f"{sum(weights) / len(weights):.1f}", in tenths, rounded half to even
MeanTenths(ws) ==
  LET s == SumW(ws) IN
  IF s.t # "num" THEN NaN
  ELSE LET n == 10 * s.v
           d == Len(ws)
           q == n \div d
           r == n % d
       IN Num(IF 2 * r < d THEN q
              ELSE IF 2 * r > d THEN q + 1
              ELSE IF q % 2 = 0 THEN q ELSE q + 1)

\* w >= 10
IsHigh(w) == Ge(w, Num(10))

\* 3 <= w < 10
IsMedium_open(w) == Lt(Num(3), w) /\ Lt(w, Num(10))

IsMedium(w) == Le(Num(3), w) /\ Lt(w, Num(10))

\* w < 3
IsNormal(w) == Lt(w, Num(3))

\* sum(1 for w in weights if w >= 10)
CountHigh(ws) == Cardinality({i \in 1..Len(ws) : IsHigh(ws[i])})

\* sum(1 for w in weights if 3 <= w < 10)
CountMedium(ws) == Cardinality({i \in 1..Len(ws) : IsMedium(ws[i])})

\* sum(1 for w in weights if w < 3)
CountNormal(ws) == Cardinality({i \in 1..Len(ws) : IsNormal(ws[i])})

\* ------------------------------------------------------------------------
\* Parameter names (tuples of characters, so that lower() and the substring
\* test are computed)
\* ------------------------------------------------------------------------

\* str.lower() on one character
LowerChar(c) ==
  CASE c = "L" -> "l" [] c = "O" -> "o" [] c = "R" -> "r" [] c = "A" -> "a"
    [] c = "B" -> "b" [] OTHER -> c

\* name.lower()
Lower(s) == [i \in 1..Len(s) |-> LowerChar(s[i])]

\* sub in s
Contains(sub, s) ==
  \E i \in 0..(Len(s) - Len(sub)) : SubSeq(s, i + 1, i + Len(sub)) = sub

\* the marker "lora"
Marker == <<"l", "o", "r", "a">>

\* "lora" in name.lower()
IsLoraName_cased(name) == Contains(Marker, name)

IsLoraName(name) == Contains(Marker, Lower(name))

\* The attention projection the adapter is injected into (target_modules);
\* one target stands for q_proj, v_proj, k_proj, o_proj.
TargetWeight == <<"q", ".", "w">>

\* Other parameter names a base model may have: "e.w", "flora.w", "LoRA.w"
ExtraBaseNames ==
  {<<"e", ".", "w">>,
   <<"f", "l", "o", "r", "a", ".", "w">>,
   <<"L", "o", "R", "A", ".", "w">>}

\* Names get_peft_model gives the injected matrices: "q.lora_A", "q.lora_B"
AdapterNames ==
  {<<"q", ".", "l", "o", "r", "a", "_", "A">>,
   <<"q", ".", "l", "o", "r", "a", "_", "B">>}

Param(name, origin, value) == [name |-> name, origin |-> origin, value |-> value]

\* ------------------------------------------------------------------------
\* Tokenization (WeightedExampleDataset.__init__)
\* ------------------------------------------------------------------------

\* max_length default of WeightedExampleDataset.__init__
max_length == 512

SystemPrompt == "You are Qwen, a helpful AI assistant."

\* tokenizer.apply_chat_template(chat, tokenize=False): the three turns in order
ApplyChatTemplate(ex) ==
  <<"system", SystemPrompt, "user", ex.query, "assistant", ex.response>>

\* tokenizer(text, truncation=True, max_length=..., padding="max_length")
Encode(text, n) ==
  [input_ids |-> [i \in 1..n |-> IF i <= Len(text) THEN text[i] ELSE "<pad>"],
   attention_mask |-> [i \in 1..n |-> IF i <= Len(text) THEN 1 ELSE 0]]

TokenizeExample(ex, n) ==
  LET encoded == Encode(ApplyChatTemplate(ex), n)
  IN [input_ids |-> encoded.input_ids,
      attention_mask |-> encoded.attention_mask,
      labels |-> encoded.input_ids]

\* ------------------------------------------------------------------------
\* State
\* ------------------------------------------------------------------------

NoSummary == [printed |-> FALSE, loaded |-> 0, weights |-> <<>>,
              min |-> NaN, max |-> NaN, mean |-> NaN,
              high |-> 0, medium |-> 0, normal |-> 0]

NoDataset == [built |-> FALSE, examples |-> <<>>, weights |-> <<>>,
              total_weight |-> Num(0), tokenized_examples |-> <<>>, len |-> 0]

NoSampler == [created |-> FALSE, weights |-> <<>>, num_samples |-> 0,
              replacement |-> FALSE]

NoTrainer == [created |-> FALSE, kwargs |-> {}, train_dataset_len |-> 0,
              mlm |-> FALSE, output_dir |-> ""]

NoFile == [state |-> "absent", tensors |-> {}]

Init ==
  /\ pc = "import"
  /\ queueExists \in BOOLEAN
  /\ lines \in AllFiles
  /\ (~queueExists => lines = <<>>)
  /\ line_num = 0
  /\ examples = <<>>
  /\ warnings = <<>>
  /\ summary = NoSummary
  /\ params = {}
  /\ dataset = NoDataset
  /\ sampler = NoSampler
  /\ trainer = NoTrainer
  /\ exportInvoked = FALSE
  /\ outputFile = NoFile
  /\ exitCode = -1
  /\ diag = "none"
  /\ failedAt = "none"

\* The process ends at `stage` with exit status 1 and diagnostic `d`:
\* sys.exit(1) after a printed error, or an uncaught exception (traceback).
Die(stage, d) ==
  /\ pc' = "exit"
  /\ exitCode' = 1
  /\ diag' = d
  /\ failedAt' = stage

Continue(next) ==
  /\ pc' = next
  /\ UNCHANGED <<exitCode, diag, failedAt>>

\* ------------------------------------------------------------------------
\* Module import (try/except ImportError around the third-party imports)
\* ------------------------------------------------------------------------

ImportDeps ==
  /\ pc = "import"
  /\ \/ Continue("validate")
     \/ Die("import", "MissingPackage")
  /\ UNCHANGED <<queueExists, lines, line_num, examples, warnings, summary,
                 params, dataset, sampler, trainer, exportInvoked, outputFile>>

\* ------------------------------------------------------------------------
\* main: validate inputs
\* ------------------------------------------------------------------------

ValidateInputs ==
  /\ pc = "validate"
  /\ IF ~queueExists
       THEN Die("validate", "QueueNotFound")
       ELSE Continue("load")
  /\ UNCHANGED <<queueExists, lines, line_num, examples, warnings, summary,
                 params, dataset, sampler, trainer, exportInvoked, outputFile>>

\* ------------------------------------------------------------------------
\* load_training_examples
\* ------------------------------------------------------------------------

Warning(n, msg) == [line |-> n, msg |-> msg]

\* One iteration of `for line_num, line in enumerate(f, 1)`
LoadLine ==
  /\ pc = "load"
  /\ line_num < Len(lines)
  /\ LET n == line_num + 1
         example == lines[n]
     IN /\ line_num' = n
        /\ IF JsonDecodeError(example)
             THEN /\ warnings' = Append(warnings, Warning(n, "invalid JSON"))
                  /\ UNCHANGED examples
                  /\ Continue("load")
           ELSE IF InRaises(example)
             THEN /\ UNCHANGED <<warnings, examples>>
                  /\ Die("load", "TypeError")
           ELSE IF ~InQuery(example) \/ ~InResponse(example)
             THEN /\ warnings' = Append(warnings, Warning(n, "missing query/response"))
                  /\ UNCHANGED examples
                  /\ Continue("load")
           ELSE /\ examples' = AppendExample(examples, example)
                /\ UNCHANGED warnings
                /\ Continue("load")
  /\ UNCHANGED <<queueExists, lines, summary, params, dataset, sampler,
                 trainer, exportInvoked, outputFile>>

\* weights = [ex.get("weight", 1.0) for ex in examples]   (loader)
LoaderWeights(exs) == [i \in 1..Len(exs) |-> DictGetWeight(exs[i])]

\* The exception the summary block raises on `ws`, or "none":
\*   min() of an empty list                      -> ValueError
\*   min() comparing a number with a non-number  -> TypeError
\*   format(x, ".1f") of a non-number            -> ValueError
SummaryError(ws) ==
  IF ws = <<>> THEN "ValueError"
  ELSE IF \E i, j \in 1..Len(ws) : IsNumeric(ws[i]) /\ ~IsNumeric(ws[j])
    THEN "TypeError"
  ELSE IF \E i \in 1..Len(ws) : ~IsNumeric(ws[i]) THEN "ValueError"
  ELSE "none"

\* The printed weight distribution
WeightSummary(exs, ws) ==
  [printed |-> TRUE, loaded |-> Len(exs), weights |-> ws,
   min |-> MinW(ws), max |-> MaxW(ws), mean |-> MeanTenths(ws),
   high |-> CountHigh(ws),
   medium |-> CountMedium(ws),
   normal |-> CountNormal(ws)]

\* After the loop: "Loaded N", the weight distribution, return examples
LoaderSummary ==
  /\ pc = "load"
  /\ line_num = Len(lines)
  /\ IF \E i \in 1..Len(examples) : GetRaises(examples[i])
       THEN /\ Die("load", "AttributeError")
            /\ UNCHANGED summary
     ELSE LET ws == LoaderWeights(examples)
          IN IF SummaryError(ws) # "none"
               THEN /\ Die("load", SummaryError(ws))
                    /\ UNCHANGED summary
             ELSE /\ summary' = WeightSummary(examples, ws)
                  /\ Continue("check_empty")
  /\ UNCHANGED <<queueExists, lines, line_num, examples, warnings, params,
                 dataset, sampler, trainer, exportInvoked, outputFile>>

\* main: if len(examples) == 0: error, sys.exit(1)
CheckEmpty ==
  /\ pc = "check_empty"
  /\ IF Len(examples) = 0
       THEN Die("check_empty", "NoValidExamples")
       ELSE Continue("tokenizer")
  /\ UNCHANGED <<queueExists, lines, line_num, examples, warnings, summary,
                 params, dataset, sampler, trainer, exportInvoked, outputFile>>

\* ------------------------------------------------------------------------
\* main: tokenizer, base model, adapter injection
\* ------------------------------------------------------------------------

\* AutoTokenizer.from_pretrained: returns, or raises
LoadTokenizer ==
  /\ pc = "tokenizer"
  /\ \/ Continue("model")
     \/ Die("tokenizer", "LoadError")
  /\ UNCHANGED <<queueExists, lines, line_num, examples, warnings, summary,
                 params, dataset, sampler, trainer, exportInvoked, outputFile>>

\* AutoModelForCausalLM.from_pretrained: returns a model whose parameters are
\* the target projection plus at most one of the other base names, or raises
LoadBaseModel ==
  /\ pc = "model"
  /\ \/ /\ \E extra \in {x \in SUBSET ExtraBaseNames : Cardinality(x) <= 1} :
             params' = {Param(n, "base", "pretrained") : n \in {TargetWeight} \cup extra}
        /\ Continue("peft")
     \/ /\ UNCHANGED params
        /\ Die("model", "LoadError")
  /\ UNCHANGED <<queueExists, lines, line_num, examples, warnings, summary,
                 dataset, sampler, trainer, exportInvoked, outputFile>>

\* model = get_peft_model(model, lora_config): injects the low-rank matrices
ApplyLora ==
  /\ pc = "peft"
  /\ params' = params \cup {Param(n, "adapter", "init") : n \in AdapterNames}
  /\ Continue("dataset")
  /\ UNCHANGED <<queueExists, lines, line_num, examples, warnings, summary,
                 dataset, sampler, trainer, exportInvoked, outputFile>>

\* ------------------------------------------------------------------------
\* WeightedExampleDataset
\* ------------------------------------------------------------------------

\* self.weights = [ex.get("weight", 1.0) for ex in examples]
DatasetWeights(exs) == [i \in 1..Len(exs) |-> DictGetWeight(exs[i])]

\* WeightedExampleDataset.__init__
NewDataset(exs) ==
  [built |-> TRUE,
   examples |-> exs,
   weights |-> DatasetWeights(exs),
   total_weight |-> SumW(DatasetWeights(exs)),
   tokenized_examples |-> [i \in 1..Len(exs) |-> TokenizeExample(exs[i], max_length)],
   len |-> Len(exs)]

\* dataset = WeightedExampleDataset(examples, tokenizer); the tokenizer calls
\* may raise
CreateDataset ==
  /\ pc = "dataset"
  /\ \/ /\ dataset' = NewDataset(examples)
        /\ Continue("train")
     \/ /\ UNCHANGED dataset
        /\ Die("dataset", "TokenizerError")
  /\ UNCHANGED <<queueExists, lines, line_num, examples, warnings, summary,
                 params, sampler, trainer, exportInvoked, outputFile>>

\* WeightedExampleDataset.get_weighted_sampler
GetWeightedSampler(ds) ==
  [created |-> TRUE, weights |-> ds.weights, num_samples |-> Len(ds.examples),
   replacement |-> TRUE]

\* ------------------------------------------------------------------------
\* train_lora
\* ------------------------------------------------------------------------

\* Trainer(model=..., args=..., train_dataset=..., data_collator=...)
NewTrainer(ds) ==
  [created |-> TRUE,
   kwargs |-> {"model", "args", "train_dataset", "data_collator"},
   train_dataset_len |-> ds.len,
   mlm |-> FALSE,
   output_dir |-> "checkpoints"]

\* trainer.train() raises: the exception propagates out of main, training
\* swallowed instead continues to the export
TrainFailed_swallowed ==
  /\ pc' = "export"
  /\ failedAt' = "train"
  /\ diag' = "TrainingError"
  /\ UNCHANGED exitCode

TrainFailed == Die("train", "TrainingError")

\* trainer.train() returns: the adapter matrices have been updated, the base
\* parameters are frozen
Trained(ps) ==
  {IF p.origin = "adapter" THEN Param(p.name, p.origin, "trained") ELSE p : p \in ps}

TrainLora ==
  /\ pc = "train"
  /\ sampler' = GetWeightedSampler(dataset)
  /\ trainer' = NewTrainer(dataset)
  /\ \/ /\ params' = Trained(params)
        /\ Continue("export")
     \/ /\ UNCHANGED params
        /\ TrainFailed
  /\ UNCHANGED <<queueExists, lines, line_num, examples, warnings, summary,
                 dataset, exportInvoked, outputFile>>

\* ------------------------------------------------------------------------
\* export_adapter
\* ------------------------------------------------------------------------

\* adapter_state_dict: name -> tensor for the parameters whose name matches
AdapterStateDict(ps) ==
  {[name |-> p.name, value |-> p.value] : p \in {x \in ps : IsLoraName(x.name)}}

\* mkdir + save_file: the file is written, or an I/O error leaves no file or
\* an incomplete one
ExportAdapter ==
  /\ pc = "export"
  /\ exportInvoked' = TRUE
  /\ \/ /\ outputFile' = [state |-> "complete", tensors |-> AdapterStateDict(params)]
        /\ Continue("finish")
     \/ /\ outputFile' \in {NoFile, [state |-> "partial", tensors |-> {}]}
        /\ Die("export", "IOError")
  /\ UNCHANGED <<queueExists, lines, line_num, examples, warnings, summary,
                 params, dataset, sampler, trainer>>

\* main returns after the closing banner
Finish ==
  /\ pc = "finish"
  /\ pc' = "exit"
  /\ exitCode' = 0
  /\ UNCHANGED <<queueExists, lines, line_num, examples, warnings, summary,
                 params, dataset, sampler, trainer, exportInvoked, outputFile,
                 diag, failedAt>>

Next ==
  \/ ImportDeps
  \/ ValidateInputs
  \/ LoadLine
  \/ LoaderSummary
  \/ CheckEmpty
  \/ LoadTokenizer
  \/ LoadBaseModel
  \/ ApplyLora
  \/ CreateDataset
  \/ TrainLora
  \/ ExportAdapter
  \/ Finish

Spec == Init /\ [][Next]_vars

\* ------------------------------------------------------------------------
\* Properties
\* ------------------------------------------------------------------------

\* A line that is a JSON object with both required fields
IsValidRecord(l) == l.kind = "object" /\ l.hasQuery /\ l.hasResponse

\* The valid lines of the queue file, in file order
ValidLines == SelectSeq(lines, IsValidRecord)

\* The 1-based numbers of the lines that are not valid records, in file order
RECURSIVE SkippedNumbers(_)
SkippedNumbers(n) ==
  IF n = 0 THEN <<>>
  ELSE IF IsValidRecord(lines[n]) THEN SkippedNumbers(n - 1)
  ELSE Append(SkippedNumbers(n - 1), n)

\* load_training_examples has returned to main
LoaderReturned == summary.printed

\* load_training_examples has ended, by returning or by raising
LoaderEnded == LoaderReturned \/ (pc = "exit" /\ failedAt = "load")

\* trainer.train() has returned
TrainingCompleted ==
  /\ trainer.created
  /\ \A p \in params : p.origin = "adapter" => p.value = "trained"

\* C1: whenever train_lora has created the trainer, the weighted sampler built
\* from the dataset's weight table is among the things handed to it.
C1_SamplerHandedToTrainer ==
  trainer.created =>
    /\ sampler.created
    /\ sampler.weights = dataset.weights
    /\ "sampler" \in trainer.kwargs

\* C2: a run whose queue file exists and holds no valid record ends at main's
\* zero-records check with the 'no valid examples' diagnostic and exit code 1.
C2_ZeroRecordsDiagnostic ==
  (pc = "exit" /\ queueExists /\ failedAt # "import" /\ Len(ValidLines) = 0) =>
    /\ failedAt = "check_empty"
    /\ diag = "NoValidExamples"
    /\ exitCode = 1

\* C3: for a file of N lines of which K are malformed or lack a required
\* field, the loader returns N-K records and has emitted K warnings, one per
\* skipped line, naming the lines' 1-based numbers.
C3_LoaderYield ==
  LoaderEnded =>
    /\ LoaderReturned
    /\ Len(examples) = Len(lines) - Len(SkippedNumbers(Len(lines)))
    /\ Len(warnings) = Len(SkippedNumbers(Len(lines)))
    /\ \A k \in 1..Len(warnings) : warnings[k].line = SkippedNumbers(Len(lines))[k]

\* C4: once the dataset is built every entry of its weight table is a positive
\* number, and a record whose stored weight is missing, zero, negative or not
\* a number has the entry 1.0.
C4_WeightsPositive ==
  dataset.built =>
    \A i \in 1..Len(dataset.weights) :
      /\ dataset.weights[i].t = "num"
      /\ dataset.weights[i].v > 0
      /\ (dataset.examples[i].weight.t # "num" \/ dataset.examples[i].weight.v <= 0)
           => dataset.weights[i] = Num(1)

C6_LoaderFatalOnlyWhenEmpty ==
  (pc = "exit" /\ failedAt = "load") => Len(ValidLines) = 0

\* C7: the written mapping holds exactly the parameters whose name contains
\* "lora" in any case, every adapter parameter, and no base-model parameter.
C7_ExportOnlyAdapter ==
  outputFile.state = "complete" =>
    LET keys == {e.name : e \in outputFile.tensors}
    IN /\ keys = {p.name : p \in {x \in params : Contains(Marker, Lower(x.name))}}
       /\ \A p \in params : p.origin = "adapter" => p.name \in keys
       /\ \A p \in params : p.origin = "base" => p.name \notin keys

\* The scenario of one record of weight 5 and nine records without a weight
ExampleRecords ==
  [i \in 1..10 |-> Line("object", TRUE, TRUE, "q1", IF i = 1 THEN Num(5) ELSE Absent)]

\* Its summary: high 0, medium 1, normal 9, mean 1.4
ExampleSummaryOk ==
  LET sm == WeightSummary(ExampleRecords, LoaderWeights(ExampleRecords))
  IN sm.high = 0 /\ sm.medium = 1 /\ sm.normal = 9 /\ sm.mean = Num(14)

\* The weight the loader uses for loaded record i, as a plain value
StoredWeight(i) ==
  IF examples[i].weight.t = "absent" THEN Num(1) ELSE examples[i].weight

C9_MissingWeightIsOne ==
  /\ LoaderReturned =>
       \A i \in 1..Len(examples) :
         examples[i].weight = Absent =>
           /\ summary.weights[i] = Num(1)
           /\ examples[i] = ValidLines[i]
  /\ dataset.built =>
       \A i \in 1..Len(dataset.examples) :
         dataset.examples[i].weight = Absent =>
           /\ dataset.weights[i] = Num(1)
           /\ dataset.examples[i] = ValidLines[i]
  /\ sampler.created =>
       \A i \in 1..Len(dataset.examples) :
         dataset.examples[i].weight = Absent => sampler.weights[i] = Num(1)

\* C9 witness: the sampler exists over a dataset holding a record without a
\* weight key next to a record with one
C9_Witness ==
  /\ sampler.created
  /\ \E i, j \in 1..Len(dataset.examples) :
       /\ dataset.examples[i].weight = Absent
       /\ dataset.examples[j].weight # Absent

\* C10: the loader returns the valid lines in file order; the dataset's weight
\* table, tokenized list and length have one entry per loaded record, entry i
\* coming from the i-th valid line; the sampler has that weight table, draws
\* as many indices as there are records, with replacement.
C10_IndexAligned ==
  /\ LoaderReturned => examples = ValidLines
  /\ dataset.built =>
       /\ Len(dataset.weights) = Len(ValidLines)
       /\ Len(dataset.tokenized_examples) = Len(ValidLines)
       /\ dataset.len = Len(ValidLines)
       /\ \A i \in 1..Len(ValidLines) :
            /\ dataset.weights[i] =
                 (IF ValidLines[i].weight = Absent THEN Num(1) ELSE ValidLines[i].weight)
            /\ dataset.tokenized_examples[i].input_ids[4] = ValidLines[i].query
            /\ dataset.tokenized_examples[i].input_ids[6] = ValidLines[i].response
            /\ dataset.tokenized_examples[i].labels = dataset.tokenized_examples[i].input_ids
  /\ sampler.created =>
       /\ sampler.weights = dataset.weights
       /\ sampler.num_samples = Len(ValidLines)
       /\ sampler.replacement

\* C10 witness: the sampler exists over two different loaded records
C10_Witness ==
  /\ sampler.created
  /\ Len(examples) = 2
  /\ examples[1].query # examples[2].query
  /\ examples[1].weight # examples[2].weight

====
